---------------------------- MODULE Spec2Model ----------------------------
(***************************************************************************)
(* A model of freespringer.py: the taxonomy index built by setup_globals   *)
(* from the rows of the books sheet, the listing queries over it, and the  *)
(* download loop of download_books / _download_book.                       *)
(*                                                                         *)
(* Python strings are sequences of one-character strings; None is the      *)
(* value None below.  A dict is a function whose DOMAIN is its key set.    *)
(***************************************************************************)
EXTENDS Integers, Sequences, FiniteSets

VARIABLES
    sheet,              \* rows of the cached books.xlsx below the header row
    pc,                 \* where the process is: "start", "loop" (setup_globals),
                        \* "ready" (index built), "download" (in download_books),
                        \* "done" (the call returned), "raised" (an exception ended it)
    exc,                \* the exception that ended the last call, or "none"
    books,              \* setup_globals: the list get_raw_list_of_books returned
    rec,                \* setup_globals: index of the next record of the loop
    PACKAGES_BOOKS,     \* setup_globals local {package: [dois]}
    SUBJECTS_BOOKS,     \* setup_globals local {subject: [dois]}
    BOOKS_TITLES,       \* {doi: title}
    BOOKS_PACKAGES,     \* {doi: package}
    IDS_OF_PACKAGES,    \* {package: id}
    IDS_OF_SUBJECTS,    \* {subject: id}
    TOPICS_BOOKS,       \* defaultdict(list) {id: [dois]}
    TOPICS_IDS,         \* {id: topic}
    PACKAGES_RELS,      \* defaultdict(set) {package: {subjects}}
    SUBJECTS_RELS,      \* defaultdict(set) {subject: {packages}}
    op,                 \* the function called on the built index: its name and arguments
    already_downloaded, \* download_books: the dedup set of the running call
    tpos,               \* download_books: index into topics of the outer loop
    bpos,               \* download_books: index into TOPICS_BOOKS[tid] of the inner loop
    fetched,            \* requests.get calls of the running call, per doi
    written,            \* completed file writes of the running call, per doi
    status_code,        \* resp.status_code of the last request, 0 when it got no answer
    dirs,               \* directories that exist, as paths below the working directory
    out                 \* what the last listing call printed

idx_vars == <<PACKAGES_BOOKS, SUBJECTS_BOOKS, BOOKS_TITLES, BOOKS_PACKAGES,
              IDS_OF_PACKAGES, IDS_OF_SUBJECTS, TOPICS_BOOKS, TOPICS_IDS,
              PACKAGES_RELS, SUBJECTS_RELS>>

dl_vars == <<op, already_downloaded, tpos, bpos, fetched, written, status_code,
            dirs, out>>

vars == <<sheet, pc, exc, books, rec, idx_vars, dl_vars>>

-----------------------------------------------------------------------------
(* Bounds of the model. *)

\* rows of the sheet
MaxRows == 2

\* topic IDs given to one call
MaxTopics == 2

-----------------------------------------------------------------------------
(* Python values. *)

None == <<"<None>">>

\* the empty dict
EmptyDict == << >>

\* d[k] = v
Put(d, k, v) == [x \in (DOMAIN d) \cup {k} |-> IF x = k THEN v ELSE d[x]]

\* defaultdict.__getitem__ read side: the value, or the default of a missing key
GetOr(d, k, default) == IF k \in DOMAIN d THEN d[k] ELSE default

\* defaultdict.__getitem__ write side: a missing key is inserted with the default
Touch(d, keys, default) ==
    [x \in (DOMAIN d) \cup keys |-> IF x \in DOMAIN d THEN d[x] ELSE default]

SetMin(S) == CHOOSE x \in S : \A y \in S : x <= y

SetMax(S) == CHOOSE x \in S : \A y \in S : x >= y

\* ord(c) of the characters topic names are made of here
Ord(c) ==
    CASE c = " " -> 32
      [] c = "." -> 46
      [] c = ";" -> 59
      [] c = "A" -> 65
      [] c = "B" -> 66
      [] c = "a" -> 97
      [] c = "b" -> 98

\* str.__lt__: lexicographic by code point, a proper prefix first
StrLess(s, t) ==
    \E k \in 1..(Len(t)) :
        /\ \A m \in 1..(k - 1) : m <= Len(s) /\ s[m] = t[m]
        /\ Len(s) >= k - 1
        /\ (Len(s) = k - 1 \/ Ord(s[k]) < Ord(t[k]))

\* sorted(keys) raises TypeError when it has to compare None with a str
SortRaises(S) == None \in S /\ Cardinality(S) >= 2

RECURSIVE Sorted(_)
\* sorted(S) for a set of strings
Sorted(S) ==
    IF S = {} THEN << >>
    ELSE LET least == CHOOSE x \in S : \A y \in S \ {x} : StrLess(x, y)
         IN  <<least>> \o Sorted(S \ {least})

RECURSIVE SortedInts(_)
\* sorted(S) for a set of integers
SortedInts(S) ==
    IF S = {} THEN << >>
    ELSE <<SetMin(S)>> \o SortedInts(S \ {SetMin(S)})

\* enumerate(seq, start): the dict {seq[k]: start + k - 1}
Enumerate(seq, start) ==
    [x \in {seq[k] : k \in DOMAIN seq} |->
        start - 1 + (CHOOSE k \in DOMAIN seq : seq[k] = x)]

\* s.strip(chars)
Strip(s, chars) ==
    LET keep == {k \in DOMAIN s : s[k] \notin chars}
    IN  IF keep = {} THEN << >> ELSE SubSeq(s, SetMin(keep), SetMax(keep))

RECURSIVE Split(_, _)
\* s.split(sep) for a one-character sep
Split(s, sep) ==
    LET at == {k \in DOMAIN s : s[k] = sep}
    IN  IF at = {} THEN <<s>>
        ELSE <<SubSeq(s, 1, SetMin(at) - 1)>>
                 \o Split(SubSeq(s, SetMin(at) + 1, Len(s)), sep)

\* longest topic name
LONGEST == 50

\* subj if len(subj) < LONGEST else subj[:LONGEST-3]+"..."
Truncate(subj) ==
    IF Len(subj) < LONGEST THEN subj
    ELSE SubSeq(subj, 1, LONGEST - 3) \o <<".", ".", ".">>

\* the subject names of one record, lines 105-106
SubjectsOf(field) ==
    LET parts == Split(field, ";")
    IN  [k \in DOMAIN parts |-> Truncate(Strip(parts[k], {" "}))]

\* the characters of "http://doi.org/"
DoiPrefixChars == {"h", "t", "p", ":", "/", "d", "o", "i", ".", "r", "g"}

\* c.value.strip("http://doi.org/")
DoiOf(cell) == Strip(cell, DoiPrefixChars)

Range(seq) == {seq[k] : k \in DOMAIN seq}

\* how often x occurs in seq
Count(seq, x) == Cardinality({k \in DOMAIN seq : seq[k] = x})

\* x repeated n times
Repeat(x, n) == [k \in 1..n |-> x]


-----------------------------------------------------------------------------
(* The sheets the process may find in its cache.  A row is the tuple       *)
(* (title, package, subjects, doi cell) of columns A, L, T and R.          *)

\* rows with every cell filled in
FullRows ==
    {<<"X">>}
        \X {<<"A">>, <<"B">>}
        \X {<< >>, <<"a">>, <<"b", ";", " ", "a">>, <<"a", ";", "a">>, Repeat("a", LONGEST)}
        \X {<<"1">>, <<"/", "1">>, <<"2">>}

\* rows with one empty cell, which openpyxl reads as None
HoleRows ==
    { <<None, <<"A">>, <<"a">>, <<"1">>>>,
      <<<<"X">>, None, <<"a">>, <<"2">>>>,
      <<<<"X">>, <<"A">>, None, <<"1">>>>,
      <<<<"X">>, <<"B">>, <<"b", ";", " ", "a">>, None>> }

\* the rows of the sheets the download loop is explored on
ShelfRows ==
    { <<<<"X">>, <<"A">>, <<"a">>, <<"1">>>>,
      <<<<"X">>, <<"A">>, <<"b", ";", " ", "a">>, <<"2">>>>,
      <<None, <<"B">>, << >>, <<"/", "1">>>> }

\* the sheets of at most MaxRows rows over a set of rows
Sheets(rows) == UNION {[1..n -> rows] : n \in 0..MaxRows}

\* the module-level globals of lines 86-93, before setup_globals ran
Boot ==
    /\ pc = "start"
    /\ exc = "none"
    /\ books = << >>
    /\ rec = 1
    /\ PACKAGES_BOOKS = EmptyDict
    /\ SUBJECTS_BOOKS = EmptyDict
    /\ BOOKS_TITLES = EmptyDict
    /\ BOOKS_PACKAGES = EmptyDict
    /\ IDS_OF_PACKAGES = EmptyDict
    /\ IDS_OF_SUBJECTS = EmptyDict
    /\ TOPICS_BOOKS = EmptyDict
    /\ TOPICS_IDS = EmptyDict
    /\ PACKAGES_RELS = EmptyDict
    /\ SUBJECTS_RELS = EmptyDict
    /\ op = [name |-> "none"]
    /\ already_downloaded = {}
    /\ tpos = 1
    /\ bpos = 1
    /\ fetched = EmptyDict
    /\ written = EmptyDict
    /\ status_code = 0
    /\ dirs = {<< >>}
    /\ out = << >>

Init == sheet \in Sheets(ShelfRows) /\ Boot

InitIndex == sheet \in Sheets(FullRows \cup HoleRows) /\ Boot

-----------------------------------------------------------------------------
(* setup_globals *)

\* get_raw_list_of_books: the rows with the doi cell stripped, lines 154-160
RawListOfBooks(rows) ==
    [k \in DOMAIN rows |-> <<rows[k][1], rows[k][2], rows[k][3], DoiOf(rows[k][4])>>]

\* lines 97-103: the locals start empty and the list of books is read.
\* _download_books_list raises RuntimeError on a non-200 answer; stripping the
\* doi cell of a row raises AttributeError when the cell is None.
SetupGlobals ==
    /\ pc = "start"
    /\ \E listed \in BOOLEAN :
         IF ~listed
         THEN /\ pc' = "raised"
              /\ exc' = "RuntimeError"
              /\ UNCHANGED <<books, rec, idx_vars>>
         ELSE IF \E k \in DOMAIN sheet : sheet[k][4] = None
         THEN /\ pc' = "raised"
              /\ exc' = "AttributeError"
              /\ UNCHANGED <<books, rec, idx_vars>>
         ELSE /\ pc' = "loop"
              /\ exc' = "none"
              /\ books' = RawListOfBooks(sheet)
              /\ rec' = 1
              /\ PACKAGES_BOOKS' = EmptyDict
              /\ SUBJECTS_BOOKS' = EmptyDict
              /\ UNCHANGED <<BOOKS_TITLES, BOOKS_PACKAGES, IDS_OF_PACKAGES,
                             IDS_OF_SUBJECTS, TOPICS_BOOKS, TOPICS_IDS,
                             PACKAGES_RELS, SUBJECTS_RELS>>
    /\ UNCHANGED <<sheet, dl_vars>>

\* PACKAGES_RELS[package].add(subj) for every subj of subjects, line 111
AddRels(rels, key, members) ==
    Put(rels, key, GetOr(rels, key, {}) \cup members)

\* line 112 with the bug SUBJECTS_RELS[subj] = {package}
AddToEachOverwriting(rels, keys, member) ==
    [x \in (DOMAIN rels) \cup keys |-> IF x \in keys THEN {member} ELSE rels[x]]

\* SUBJECTS_RELS[subj].add(package) for every subj of subjects, line 112
AddToEach(rels, keys, member) ==
    [x \in (DOMAIN rels) \cup keys |->
        IF x \in keys THEN GetOr(rels, x, {}) \cup {member} ELSE rels[x]]

\* SUBJECTS_BOOKS[subj].append(doi) for every subj of subjects, line 110
AppendToEach(lists, subjects, doi) ==
    [x \in (DOMAIN lists) \cup Range(subjects) |->
        GetOr(lists, x, << >>) \o Repeat(doi, Count(subjects, x))]

\* PACKAGES_BOOKS[package].append(doi), line 107
AppendTo(lists, key, doi) == Put(lists, key, Append(GetOr(lists, key, << >>), doi))

\* one pass of the loop of lines 104-113; subjects.split raises AttributeError
\* on None before the record touches anything
SetupRecord ==
    /\ pc = "loop"
    /\ rec <= Len(books)
    /\ LET title == books[rec][1]
           package == books[rec][2]
           field == books[rec][3]
           doi == books[rec][4]
       IN  IF field = None
           THEN /\ pc' = "raised"
                /\ exc' = "AttributeError"
                /\ UNCHANGED <<rec, idx_vars>>
           ELSE LET subjects == SubjectsOf(field)
                IN  /\ PACKAGES_BOOKS' = AppendTo(PACKAGES_BOOKS, package, doi)
                    /\ BOOKS_PACKAGES' = Put(BOOKS_PACKAGES, doi, package)
                    /\ SUBJECTS_BOOKS' = AppendToEach(SUBJECTS_BOOKS, subjects, doi)
                    /\ PACKAGES_RELS' = AddRels(PACKAGES_RELS, package, Range(subjects))
                    /\ SUBJECTS_RELS' = AddToEach(SUBJECTS_RELS, Range(subjects), package)
                    /\ BOOKS_TITLES' = Put(BOOKS_TITLES, doi, title)
                    /\ rec' = rec + 1
                    /\ UNCHANGED <<pc, exc, IDS_OF_PACKAGES, IDS_OF_SUBJECTS,
                                   TOPICS_BOOKS, TOPICS_IDS>>
    /\ UNCHANGED <<sheet, books, dl_vars>>

\* enumerate(sorted(PACKAGES_RELS.keys()), start=1), line 114
PackageIds(rels) == Enumerate(Sorted(DOMAIN rels), 1)

\* line 117 with the bug start=len(PACKAGES_RELS)
SubjectIdsOffByOne(rels, packages) == Enumerate(Sorted(DOMAIN rels), Cardinality(DOMAIN packages))

\* enumerate(sorted(SUBJECTS_RELS.keys()), start=1+len(PACKAGES_RELS)), line 117
SubjectIds(rels, packages) == Enumerate(Sorted(DOMAIN rels), 1 + Cardinality(DOMAIN packages))

\* dict.update for two dicts
Update(d, e) == [x \in (DOMAIN d) \cup (DOMAIN e) |-> IF x \in DOMAIN e THEN e[x] ELSE d[x]]

\* the dict {ids[topic]: topic}, lines 116 and 119
ById(ids) == [n \in {ids[x] : x \in DOMAIN ids} |-> CHOOSE x \in DOMAIN ids : ids[x] = n]

\* the dict {ids[topic]: lists[topic]}, lines 120-123
Rekey(lists, ids) ==
    [n \in {ids[x] : x \in DOMAIN lists} |->
        lists[CHOOSE x \in DOMAIN lists : ids[x] = n]]

\* lines 114-124: the IDs are numbered and the book lists re-keyed by ID.
\* sorted() raises TypeError on package keys that mix None and str, before
\* any ID is assigned.
SetupAssignIds ==
    /\ pc = "loop"
    /\ rec > Len(books)
    /\ IF SortRaises(DOMAIN PACKAGES_RELS)
       THEN /\ pc' = "raised"
            /\ exc' = "TypeError"
            /\ UNCHANGED <<IDS_OF_PACKAGES, IDS_OF_SUBJECTS, TOPICS_BOOKS, TOPICS_IDS>>
       ELSE LET pids == PackageIds(PACKAGES_RELS)
                sids == SubjectIds(SUBJECTS_RELS, PACKAGES_RELS)
            IN  /\ IDS_OF_PACKAGES' = Update(IDS_OF_PACKAGES, pids)
                /\ IDS_OF_SUBJECTS' = Update(IDS_OF_SUBJECTS, sids)
                /\ TOPICS_IDS' = Update(Update(TOPICS_IDS, ById(pids)), ById(sids))
                /\ TOPICS_BOOKS' = Update(Update(TOPICS_BOOKS, Rekey(PACKAGES_BOOKS, pids)),
                                          Rekey(SUBJECTS_BOOKS, sids))
                /\ pc' = "ready"
                /\ exc' = "none"
    /\ UNCHANGED <<sheet, books, rec, PACKAGES_BOOKS, SUBJECTS_BOOKS, BOOKS_TITLES,
                   BOOKS_PACKAGES, PACKAGES_RELS, SUBJECTS_RELS, dl_vars>>

NextIndex == SetupGlobals \/ SetupRecord \/ SetupAssignIds

SpecIndex == InitIndex /\ [][NextIndex]_vars

-----------------------------------------------------------------------------
(* The listing queries. *)

\* len(PACKAGES_RELS)
NumPackages == Cardinality(DOMAIN PACKAGES_RELS)

\* len(SUBJECTS_RELS)
NumSubjects == Cardinality(DOMAIN SUBJECTS_RELS)

\* the topic IDs a caller may pass: every assigned ID, 0 and the first unassigned one
TopicIds == 0..(NumPackages + NumSubjects + 1)

\* the lists of at most n topic IDs
IdLists(n) == UNION {[1..k -> TopicIds] : k \in 0..n}

\* the key of a dict that holds value v
KeyOf(d, v) == CHOOSE x \in DOMAIN d : d[x] = v

\* the rows print_available_packages prints, in the order of IDS_OF_PACKAGES
PackageRows ==
    [k \in 1..Cardinality(DOMAIN IDS_OF_PACKAGES) |->
        <<k, KeyOf(IDS_OF_PACKAGES, k), Len(GetOr(TOPICS_BOOKS, k, << >>))>>]

\* formatting None with a width, f"{pckg: <{LONGEST}}", raises TypeError
PackageRowsRaise == None \in DOMAIN IDS_OF_PACKAGES

\* lines 170-175
PrintAvailablePackages ==
    /\ pc = "ready"
    /\ op' = [name |-> "print_available_packages"]
    /\ IF PackageRowsRaise
       THEN /\ pc' = "raised"
            /\ exc' = "TypeError"
            /\ out' = << >>
            /\ UNCHANGED TOPICS_BOOKS
       ELSE /\ pc' = "done"
            /\ exc' = "none"
            /\ out' = PackageRows
            /\ TOPICS_BOOKS' = Touch(TOPICS_BOOKS, Range(IDS_OF_PACKAGES), << >>)
    /\ UNCHANGED <<sheet, books, rec, PACKAGES_BOOKS, SUBJECTS_BOOKS, BOOKS_TITLES,
                   BOOKS_PACKAGES, IDS_OF_PACKAGES, IDS_OF_SUBJECTS, TOPICS_IDS,
                   PACKAGES_RELS, SUBJECTS_RELS, already_downloaded, tpos, bpos,
                   fetched, written, status_code, dirs>>

\* line 179: set(pckg_ids) if pckg_ids else IDS_OF_PACKAGES.values()
WantedPackages(pckg_ids) ==
    IF pckg_ids = << >> THEN Range(IDS_OF_PACKAGES) ELSE Range(pckg_ids)

\* line 180: the subjects of the wanted packages
SubjectsIn(wanted) ==
    UNION {PACKAGES_RELS[p] : p \in {q \in DOMAIN PACKAGES_RELS : IDS_OF_PACKAGES[q] \in wanted}}

\* lines 184-190: one row per subject, sorted by name
SubjectRows(wanted) ==
    LET names == Sorted(SubjectsIn(wanted))
    IN  [k \in DOMAIN names |->
            <<IDS_OF_SUBJECTS[names[k]], names[k],
              SortedInts({IDS_OF_PACKAGES[p] : p \in GetOr(SUBJECTS_RELS, names[k], {})}),
              Len(GetOr(TOPICS_BOOKS, IDS_OF_SUBJECTS[names[k]], << >>))>>]

\* lines 178-191
PrintAvailableSubjects ==
    /\ pc = "ready"
    /\ \E pckg_ids \in IdLists(MaxTopics) :
         LET wanted == WantedPackages(pckg_ids)
         IN  /\ op' = [name |-> "print_available_subjects", pckg_ids |-> pckg_ids]
             /\ out' = SubjectRows(wanted)
             /\ pc' = "done"
             /\ SUBJECTS_RELS' = Touch(SUBJECTS_RELS, SubjectsIn(wanted), {})
             /\ TOPICS_BOOKS' = Touch(TOPICS_BOOKS,
                                      {IDS_OF_SUBJECTS[x] : x \in SubjectsIn(wanted)}, << >>)
    /\ UNCHANGED <<sheet, exc, books, rec, PACKAGES_BOOKS, SUBJECTS_BOOKS,
                   BOOKS_TITLES, BOOKS_PACKAGES, IDS_OF_PACKAGES, IDS_OF_SUBJECTS,
                   TOPICS_IDS, PACKAGES_RELS, already_downloaded, tpos, bpos,
                   fetched, written, status_code, dirs>>

\* lines 165-167: the packages, then the subjects of all packages
PrintAvailableTopics ==
    /\ pc = "ready"
    /\ op' = [name |-> "print_available_topics"]
    /\ IF PackageRowsRaise
       THEN /\ pc' = "raised"
            /\ exc' = "TypeError"
            /\ out' = << >>
            /\ UNCHANGED <<TOPICS_BOOKS, SUBJECTS_RELS>>
       ELSE LET wanted == WantedPackages(<< >>)
            IN  /\ pc' = "done"
                /\ exc' = "none"
                /\ out' = PackageRows \o SubjectRows(wanted)
                /\ SUBJECTS_RELS' = Touch(SUBJECTS_RELS, SubjectsIn(wanted), {})
                /\ TOPICS_BOOKS' =
                       Touch(TOPICS_BOOKS,
                             Range(IDS_OF_PACKAGES)
                                 \cup {IDS_OF_SUBJECTS[x] : x \in SubjectsIn(wanted)},
                             << >>)
    /\ UNCHANGED <<sheet, books, rec, PACKAGES_BOOKS, SUBJECTS_BOOKS, BOOKS_TITLES,
                   BOOKS_PACKAGES, IDS_OF_PACKAGES, IDS_OF_SUBJECTS, TOPICS_IDS,
                   PACKAGES_RELS, already_downloaded, tpos, bpos, fetched, written, status_code, dirs>>

\* line 198: not 0 < idx <= len(PACKAGES_RELS)
PackageFound(idx) == 0 < idx /\ idx <= NumPackages

\* line 205: not len(PACKAGES_RELS) < idx <= len(SUBJECTS_RELS)
SubjectFound(idx) == NumPackages < idx /\ idx <= NumSubjects

\* the titles printed for a list of dois, up to the first that is None:
\* "   " + None raises TypeError
TitlesPrinted(dois) ==
    LET bad == {k \in DOMAIN dois : BOOKS_TITLES[dois[k]] = None}
        upto == IF bad = {} THEN Len(dois) ELSE SetMin(bad) - 1
    IN  [k \in 1..upto |-> BOOKS_TITLES[dois[k]]]

\* one pass of the loops of lines 197-210 for the request (kind, idx)
PrintTopic(kind, idx) ==
    LET found == IF kind = "package" THEN PackageFound(idx) ELSE SubjectFound(idx)
        dois == GetOr(TOPICS_BOOKS, idx, << >>)
    IN  IF ~found
        THEN [kind |-> kind, idx |-> idx, found |-> FALSE, name |-> << >>,
              titles |-> << >>, raised |-> FALSE]
        ELSE [kind |-> kind, idx |-> idx, found |-> TRUE, name |-> TOPICS_IDS[idx],
              titles |-> TitlesPrinted(dois),
              raised |-> Len(TitlesPrinted(dois)) < Len(dois)]

RECURSIVE PrintTopics(_)
\* the passes made for a list of requests: all of them, or up to the one that raised
PrintTopics(requests) ==
    IF requests = << >> THEN << >>
    ELSE LET first == PrintTopic(requests[1][1], requests[1][2])
         IN  IF first.raised THEN <<first>>
             ELSE <<first>> \o PrintTopics(Tail(requests))

\* the requests of print_books_in_topic(subjects, packages): packages first
Requests(subjects, packages) ==
    [k \in DOMAIN packages |-> <<"package", packages[k]>>]
        \o [k \in DOMAIN subjects |-> <<"subject", subjects[k]>>]

\* lines 194-210
PrintBooksInTopic ==
    /\ pc = "ready"
    /\ \E subjects \in IdLists(MaxTopics), packages \in IdLists(MaxTopics) :
         /\ Len(subjects) + Len(packages) <= MaxTopics
         /\ LET printed == PrintTopics(Requests(subjects, packages))
                failed == printed # << >> /\ printed[Len(printed)].raised
            IN  /\ op' = [name |-> "print_books_in_topic",
                          subjects |-> subjects, packages |-> packages]
                /\ out' = printed
                /\ pc' = IF failed THEN "raised" ELSE "done"
                /\ exc' = IF failed THEN "TypeError" ELSE "none"
                /\ TOPICS_BOOKS' =
                       Touch(TOPICS_BOOKS,
                             {printed[k].idx : k \in {m \in DOMAIN printed : printed[m].found}},
                             << >>)
    /\ UNCHANGED <<sheet, books, rec, PACKAGES_BOOKS, SUBJECTS_BOOKS, BOOKS_TITLES,
                   BOOKS_PACKAGES, IDS_OF_PACKAGES, IDS_OF_SUBJECTS, TOPICS_IDS,
                   PACKAGES_RELS, SUBJECTS_RELS, already_downloaded, tpos, bpos,
                   fetched, written, status_code, dirs>>

-----------------------------------------------------------------------------
(* download_books and _download_book. *)

\* the formats LINKS has a link for, lines 213-216
LINKS == {"pdf", "epub"}

\* the formats a caller asks for: one LINKS has a link for and one it has none for
\* (nothing below tells "pdf" from "epub")
Formats == {"pdf", "mobi"}

\* the destinations a caller may pass: the working directory and a directory "d" in it
Destinations == {<< >>, <<<<"d">>>>}

\* the positions (index into topics, index into the topic's list) of the two loops
Positions(tb, topics) ==
    {<<t, b>> \in (DOMAIN topics) \X (1..SetMax({0} \cup {Len(tb[x]) : x \in DOMAIN tb})) :
        b <= Len(GetOr(tb, topics[t], << >>))}

\* the position the loops of lines 258-259 reach after position (t, b);
\* one past the last topic when no book is left
NextBook(tb, topics, t, b) ==
    LET later == {p \in Positions(tb, topics) : p[1] > t \/ (p[1] = t /\ p[2] > b)}
    IN  IF later = {} THEN <<Len(topics) + 1, 1>>
        ELSE CHOOSE p \in later :
                 \A q \in later : p[1] < q[1] \/ (p[1] = q[1] /\ p[2] <= q[2])

\* the topic IDs whose list the outer loop asks TOPICS_BOOKS for on the way
\* from topic t to topic t2
Visited(topics, t, t2) == {topics[k] : k \in {m \in DOMAIN topics : t < m /\ m <= t2}}

\* path.parent.mkdir(exist_ok=True), line 232: "ok", "made", or "FileNotFoundError"
\* when the parent of the directory is missing
Mkdir(existing, dir) ==
    IF dir \in existing THEN "ok"
    ELSE IF SubSeq(dir, 1, Len(dir) - 1) \notin existing THEN "FileNotFoundError"
    ELSE "made"

\* line 224, with the bug of a dedup set that is never consulted
NeverSkipped(doi, done) == FALSE

\* line 224: if doi in already_downloaded
Skipped(doi, done) == doi \in done

\* lines 235-245, with the bug of raising on a non-200 answer the way
\* _download_books_list does
AfterResponseRaising(status, disk) ==
    IF status # 200 THEN [raised |-> "RuntimeError", saved |-> FALSE]
    ELSE IF ~disk THEN [raised |-> "OSError", saved |-> FALSE]
    ELSE [raised |-> "none", saved |-> TRUE]

\* lines 235-245: a non-200 answer is logged and the function returns; the
\* file is written otherwise, and open() or write() may raise OSError
AfterResponse(status, disk) ==
    IF status # 200 THEN [raised |-> "none", saved |-> FALSE]
    ELSE IF ~disk THEN [raised |-> "OSError", saved |-> FALSE]
    ELSE [raised |-> "none", saved |-> TRUE]

\* _download_book, lines 219-245.  status is the answer of the site, online
\* whether the request got an answer at all, disk whether the file could be
\* written.
\*   skipped  the doi was in already_downloaded
\*   raised   the exception that left the function, or "none"
\*   made     the directory mkdir created, or << >> when it created none
\*   got      a request was sent
\*   status   the status code of the answer, 0 without one
\*   saved    the file was written and the doi marked as downloaded
DownloadBook(doi, dest, group, done, existing, status, online, disk) ==
    LET base == [skipped |-> FALSE, raised |-> "none", made |-> << >>,
                 got |-> FALSE, status |-> 0, saved |-> FALSE]
        dir == dest \o (IF group = << >> THEN << >> ELSE <<group>>)
        made == IF Mkdir(existing, dir) = "made" THEN dir ELSE << >>
        after == AfterResponse(status, disk)
    IN  IF Skipped(doi, done) THEN [base EXCEPT !.skipped = TRUE]
        ELSE IF BOOKS_TITLES[doi] = None THEN [base EXCEPT !.raised = "AttributeError"]
        ELSE IF group = None THEN [base EXCEPT !.raised = "TypeError"]
        ELSE IF Mkdir(existing, dir) = "FileNotFoundError"
             THEN [base EXCEPT !.raised = "FileNotFoundError"]
        ELSE IF ~online
             THEN [base EXCEPT !.made = made, !.got = TRUE, !.raised = "ConnectionError"]
        ELSE [base EXCEPT !.made = made, !.got = TRUE, !.status = status,
                          !.raised = after.raised, !.saved = after.saved]

\* a counter of a per-doi log raised by one
Bump(log, doi) == Put(log, doi, GetOr(log, doi, 0) + 1)

\* lines 248-257 and the loops' way to the first book: an unsupported format
\* returns at once; an empty BOOKS_TITLES calls setup_globals() without its
\* argument, which raises TypeError
DownloadBooks ==
    /\ pc = "ready"
    /\ \E topics \in IdLists(MaxTopics), dest \in Destinations,
          extention \in Formats, group \in BOOLEAN :
         LET first == NextBook(TOPICS_BOOKS, topics, 0, 0)
         IN  /\ op' = [name |-> "download_books", topics |-> topics, dest |-> dest,
                       extention |-> extention, group |-> group]
             /\ IF extention \notin LINKS
                THEN /\ pc' = "done"
                     /\ exc' = "none"
                     /\ UNCHANGED <<TOPICS_BOOKS, already_downloaded, tpos, bpos,
                                    fetched, written, status_code>>
                ELSE IF BOOKS_TITLES = EmptyDict
                THEN /\ pc' = "raised"
                     /\ exc' = "TypeError"
                     /\ UNCHANGED <<TOPICS_BOOKS, already_downloaded, tpos, bpos,
                                    fetched, written, status_code>>
                ELSE /\ already_downloaded' = {}
                     /\ fetched' = EmptyDict
                     /\ written' = EmptyDict
                     /\ status_code' = 0
                     /\ tpos' = first[1]
                     /\ bpos' = first[2]
                     /\ TOPICS_BOOKS' = Touch(TOPICS_BOOKS, Visited(topics, 0, first[1]), << >>)
                     /\ pc' = IF first[1] > Len(topics) THEN "done" ELSE "download"
                     /\ exc' = "none"
    /\ UNCHANGED <<sheet, books, rec, PACKAGES_BOOKS, SUBJECTS_BOOKS, BOOKS_TITLES,
                   BOOKS_PACKAGES, IDS_OF_PACKAGES, IDS_OF_SUBJECTS, TOPICS_IDS,
                   PACKAGES_RELS, SUBJECTS_RELS, dirs, out>>

\* what the site and the disk may do to one book: no answer at all, a 404
\* answer, a 200 answer and a failing write, a 200 answer and a written file
World ==
    { [online |-> FALSE, status |-> 0, disk |-> TRUE],
      [online |-> TRUE, status |-> 404, disk |-> TRUE],
      [online |-> TRUE, status |-> 200, disk |-> FALSE],
      [online |-> TRUE, status |-> 200, disk |-> TRUE] }

\* one pass of the inner loop, line 260, and the loops' way to the next book
DownloadNext ==
    /\ pc = "download"
    /\ \E world \in World :
         LET doi == TOPICS_BOOKS[op.topics[tpos]][bpos]
             group == IF op.group THEN BOOKS_PACKAGES[doi] ELSE << >>
             res == DownloadBook(doi, op.dest, group, already_downloaded, dirs,
                                 world.status, world.online, world.disk)
             next == NextBook(TOPICS_BOOKS, op.topics, tpos, bpos)
         IN  /\ dirs' = IF res.made = << >> THEN dirs ELSE dirs \cup {res.made}
             /\ fetched' = IF res.got THEN Bump(fetched, doi) ELSE fetched
             /\ written' = IF res.saved THEN Bump(written, doi) ELSE written
             /\ status_code' = IF res.got THEN res.status ELSE status_code
             /\ already_downloaded' =
                    IF res.saved THEN already_downloaded \cup {doi} ELSE already_downloaded
             /\ IF res.raised # "none"
                THEN /\ pc' = "raised"
                     /\ exc' = res.raised
                     /\ UNCHANGED <<tpos, bpos, TOPICS_BOOKS>>
                ELSE /\ tpos' = next[1]
                     /\ bpos' = next[2]
                     /\ TOPICS_BOOKS' =
                            Touch(TOPICS_BOOKS, Visited(op.topics, tpos, next[1]), << >>)
                     /\ pc' = IF next[1] > Len(op.topics) THEN "done" ELSE "download"
                     /\ exc' = "none"
    /\ UNCHANGED <<sheet, books, rec, PACKAGES_BOOKS, SUBJECTS_BOOKS, BOOKS_TITLES,
                   BOOKS_PACKAGES, IDS_OF_PACKAGES, IDS_OF_SUBJECTS, TOPICS_IDS,
                   PACKAGES_RELS, SUBJECTS_RELS, op, out>>

Next ==
    \/ SetupGlobals
    \/ SetupRecord
    \/ SetupAssignIds
    \/ PrintAvailablePackages
    \/ PrintAvailableSubjects
    \/ PrintAvailableTopics
    \/ PrintBooksInTopic
    \/ DownloadBooks
    \/ DownloadNext

Spec == Init /\ [][Next]_vars

-----------------------------------------------------------------------------
(* What the claims speak of, read off the records rather than off the index. *)

\* the records the loop of setup_globals has processed
Processed == 1..(rec - 1)

\* the distinct package names of the records
PackageNames == {books[k][2] : k \in DOMAIN books}

\* the distinct subject names of record k, stripped and truncated
SubjectNamesOf(k) == Range(SubjectsOf(books[k][3]))

\* the distinct subject names of the records
SubjectNames == UNION {SubjectNamesOf(k) : k \in DOMAIN books}

\* the book list of a package or of a subject in the finished index
PackageList(p) == TOPICS_BOOKS[IDS_OF_PACKAGES[p]]

SubjectList(x) == TOPICS_BOOKS[IDS_OF_SUBJECTS[x]]

\* ids is a bijection from names onto lo..hi that follows the sorted order of the names
NumberedInOrder(ids, names, lo, hi) ==
    /\ DOMAIN ids = names
    /\ {ids[x] : x \in names} = lo..hi
    /\ \A x, y \in names : x # y => ids[x] # ids[y]
    /\ \A x, y \in names : (x # y /\ StrLess(x, y)) => ids[x] < ids[y]

C10_RelationsSymmetric ==
    LET carried == [k \in Processed |-> SubjectNamesOf(k)]
        subjects == UNION {carried[k] : k \in Processed} \cup DOMAIN SUBJECTS_RELS
    IN  \A p \in PackageNames \cup DOMAIN PACKAGES_RELS : \A x \in subjects :
            LET shared == \E k \in Processed : books[k][2] = p /\ x \in carried[k]
            IN  /\ (x \in GetOr(PACKAGES_RELS, p, {})) <=> shared
                /\ (p \in GetOr(SUBJECTS_RELS, x, {})) <=> shared

\* C10 witness: between two passes of the loop, a subject related to a package
\* that the record still to come will relate to a second package
C10_Witness ==
    /\ pc = "loop"
    /\ rec = 2
    /\ Len(books) = 2
    /\ books[1][2] # books[2][2]
    /\ \E x \in SubjectNamesOf(2) : x \in GetOr(PACKAGES_RELS, books[1][2], {})

\* the identifiers of the records are pairwise distinct
DistinctDois == \A j, k \in DOMAIN books : j # k => books[j][4] # books[k][4]

\* C4: in the finished index of records with pairwise distinct identifiers,
\* every book's identifier is once in the list of exactly one package, and once
\* in each of exactly as many subject lists as the record has distinct non-empty
\* subject names; a record with an empty subject field makes no subject topic
C4_OncePerPackageAndSubject ==
    (pc = "ready" /\ DistinctDois) =>
        \A k \in DOMAIN books :
            LET doi == books[k][4]
                inPackages == {p \in DOMAIN IDS_OF_PACKAGES : Count(PackageList(p), doi) > 0}
                inSubjects == {x \in DOMAIN IDS_OF_SUBJECTS : Count(SubjectList(x), doi) > 0}
            IN  /\ Cardinality(inPackages) = 1
                /\ \A p \in inPackages : Count(PackageList(p), doi) = 1
                /\ Cardinality(inSubjects) = Cardinality(SubjectNamesOf(k) \ {<< >>})
                /\ \A x \in inSubjects : Count(SubjectList(x), doi) = 1
                /\ (books[k][3] = << >> => << >> \notin DOMAIN IDS_OF_SUBJECTS)

\* a row of the sheet misses its title, its package or its identifier
MissingField == \E k \in DOMAIN sheet : None \in {sheet[k][1], sheet[k][2], sheet[k][4]}

\* no map of the index holds anything
IndexEmpty ==
    /\ BOOKS_TITLES = EmptyDict /\ BOOKS_PACKAGES = EmptyDict
    /\ IDS_OF_PACKAGES = EmptyDict /\ IDS_OF_SUBJECTS = EmptyDict
    /\ TOPICS_BOOKS = EmptyDict /\ TOPICS_IDS = EmptyDict
    /\ PACKAGES_RELS = EmptyDict /\ SUBJECTS_RELS = EmptyDict

\* C9: setup_globals never returns normally when a row misses its title, its
\* package or its identifier, and when it has raised, no map of the index
\* holds anything
C9_MissingFieldFailsCleanly ==
    /\ (MissingField => pc # "ready")
    /\ ((pc = "raised" /\ op.name = "none") => IndexEmpty)

-----------------------------------------------------------------------------
(* Claims about the calls made on the built index. *)

\* a call of download_books with a format LINKS has a link for
Downloading == op.name = "download_books" /\ op.extention \in LINKS

\* the list of topic ID tid, empty when the index has none
BooksOf(tid) == GetOr(TOPICS_BOOKS, tid, << >>)

\* the dois listed under at least two distinct topic IDs of the call
UnderTwoTopics ==
    {doi \in DOMAIN BOOKS_TITLES :
        \E s, t \in Range(op.topics) :
            s # t /\ doi \in Range(BooksOf(s)) /\ doi \in Range(BooksOf(t))}

\* C1 as claimed: when download_books has returned, every book listed under
\* two of the requested topic IDs was fetched exactly once and written exactly
\* once, whatever the site answered
C1_FetchedAndWrittenExactlyOnce ==
    (pc = "done" /\ Downloading) =>
        \A doi \in UnderTwoTopics :
            GetOr(fetched, doi, 0) = 1 /\ GetOr(written, doi, 0) = 1

\* C1 as amended: in one download_books call no book is written more than
\* once, and a book that was fetched with a 200 answer and written is never
\* fetched or written again, however often it comes up again
C1_NoFetchAfterSuccess ==
    [][\A doi \in DOMAIN BOOKS_TITLES :
           /\ GetOr(written', doi, 0) <= 1
           /\ (pc = "download" /\ doi \in already_downloaded) =>
                  /\ GetOr(fetched', doi, 0) = GetOr(fetched, doi, 0)
                  /\ GetOr(written', doi, 0) = GetOr(written, doi, 0)]_vars

\* C1 witness: the call has returned, and a book listed under two of its
\* topic IDs was fetched once and written once
C1_Witness ==
    /\ pc = "done"
    /\ Downloading
    /\ \E doi \in UnderTwoTopics : fetched[doi] = 1 /\ GetOr(written, doi, 0) = 1

\* position (t2, b2) comes after position (t, b) in topic order, then list order
Later(t, b, t2, b2) == t2 > t \/ (t2 = t /\ b2 > b)

\* a book is listed at position (t, b) of the call
BookAt(t, b) == t \in DOMAIN op.topics /\ b \in 1..Len(BooksOf(op.topics[t]))

\* no book is listed at a position after (t, b) and before (t2, b2)
NoneBetween(t, b, t2, b2) ==
    \A u \in DOMAIN op.topics : \A c \in 1..Len(BooksOf(op.topics[u])) :
        ~(Later(t, b, u, c) /\ Later(u, c, t2, b2))

\* C2: a pass of the download loop whose request got a non-200 answer writes
\* nothing, marks nothing as downloaded and does not end the call with an
\* exception: the loop goes on with the next book in topic order, then list
\* order, or returns when none is left.  So whenever download_books returns,
\* every book of every requested topic was attempted.
C2_BadStatusDoesNotAbort ==
    /\ [][(pc = "download" /\ fetched' # fetched /\ status_code' \notin {0, 200}) =>
            /\ written' = written
            /\ already_downloaded' = already_downloaded
            /\ pc' \in {"download", "done"}
            /\ pc' = "download" =>
                   /\ BookAt(tpos', bpos')
                   /\ Later(tpos, bpos, tpos', bpos')
                   /\ NoneBetween(tpos, bpos, tpos', bpos')
            /\ pc' = "done" => NoneBetween(tpos, bpos, Len(op.topics) + 1, 1)]_vars
    /\ []((pc = "done" /\ Downloading) =>
            \A t \in Range(op.topics) : \A doi \in Range(BooksOf(t)) :
                GetOr(fetched, doi, 0) >= 1)

\* C2 witness: the call has returned after a book got a non-200 answer and
\* was never written, and a later request got a 200 answer and its book was
\* written
C2_Witness ==
    /\ pc = "done"
    /\ Downloading
    /\ status_code = 200
    /\ \E doi \in DOMAIN fetched : doi \notin DOMAIN written
    /\ \E doi \in DOMAIN written : written[doi] = 1

\* the lists of print_books_in_topic's arguments, packages first
Asked == Requests(op.subjects, op.packages)

\* C5: when print_books_in_topic has returned, every requested ID has its own
\* entry, a package ID found exactly when 0 < id <= P and a subject ID found
\* exactly when P < id <= P+S
C5_EachIdOnItsOwn ==
    (pc = "done" /\ op.name = "print_books_in_topic") =>
        /\ Len(out) = Len(Asked)
        /\ \A k \in DOMAIN Asked :
               /\ out[k].idx = Asked[k][2]
               /\ out[k].found =
                      IF Asked[k][1] = "package"
                      THEN 0 < Asked[k][2] /\ Asked[k][2] <= NumPackages
                      ELSE NumPackages < Asked[k][2]
                               /\ Asked[k][2] <= NumPackages + NumSubjects

\* C6: a filesystem error of one book does not end the call of download_books
C6_FilesystemErrorIsPerBook ==
    exc \in {"FileNotFoundError", "OSError"} => pc \in {"download", "done"}

\* C7: once setup_globals has returned, no step of a listing query or of
\* download_books changes a map of the index
C7_IndexReadOnly ==
    [][(pc \in {"ready", "download"}) =>
          (UNCHANGED <<TOPICS_BOOKS, TOPICS_IDS, IDS_OF_PACKAGES, IDS_OF_SUBJECTS,
                       PACKAGES_RELS, SUBJECTS_RELS, BOOKS_TITLES, BOOKS_PACKAGES>>)]_vars

\* C8: a call of download_books with a supported format on an index without
\* books does not fail, and fetches nothing
C8_EmptyIndexDownloads ==
    (Downloading /\ BOOKS_TITLES = EmptyDict) =>
        pc # "raised" /\ fetched = EmptyDict

=============================================================================
